---------------------------- MODULE Spec2Model ----------------------------
(***************************************************************************)
(* A model of src/movies.py: the Movie and User entities, Storage          *)
(* (save/load through JSON), the two recommenders, and the MovieApp        *)
(* session that drives them.                                               *)
(*                                                                         *)
(* Representation of Python values                                         *)
(*   - an optional value (rating, genre) is a tuple: <<>> is None and      *)
(*     <<x>> is the value x;                                               *)
(*   - a dict is a sequence of entries in insertion order (Python dicts    *)
(*     keep insertion order, and the recommenders depend on it);           *)
(*   - a User object is a record [username, movies, preferences]; in the   *)
(*     session, objects live in a heap so that two references to "the      *)
(*     same user" can be told apart from two equal users.                  *)
(***************************************************************************)
EXTENDS Integers, Sequences, FiniteSets, TLC

VARIABLES
    \* ---- MovieApp session (specification Spec)
    heap,          \* object id -> User object, or Free
    users,         \* MovieApp.users: dict username -> reference, insertion order
    current_user,  \* MovieApp.current_user: a reference, or NoRef (None)
    file,          \* content of movies_data.json, or NoFile
    running,       \* FALSE once the menu loop has been left
    \* ---- one User object driven through its methods (specification SpecUser)
    obj,           \* the User object
    before,        \* the object as it was before the last call
    call,          \* the last call: [op, title, arg]
    raised,        \* the exception that escaped the last call, or "none"
    \* ---- a pure call: recommenders, Storage round trip (SpecSim, SpecStore)
    arg_user,      \* the `user` argument
    arg_users,     \* the `users` argument: sequence of User objects, dict order
    ret            \* what the call returned, or NotCalled

sessionVars == <<heap, users, current_user, file, running>>
userVars    == <<obj, before, call, raised>>
pureVars    == <<arg_user, arg_users, ret>>
vars        == <<heap, users, current_user, file, running,
                 obj, before, call, raised, arg_user, arg_users, ret>>

----------------------------------------------------------------------------
(* Python values *)

None == <<>>
Some(x) == <<x>>
IsNone(o) == o = <<>>
Val(o) == o[1]

\* truthiness of an optional int: None and 0 are falsy (`if m.rating`)
Truthy(o) == o # <<>> /\ o[1] # 0

Abs(n) == IF n < 0 THEN -n ELSE n

Range(s) == {s[i] : i \in DOMAIN s}

\* str.strip() on the strings the model feeds in: surrounding blanks removed
strip(s) ==
    CASE s = " "       -> ""
      [] s = " scifi"  -> "scifi"
      [] s = "drama "  -> "drama"
      [] s = " Dune "  -> "Dune"
      [] OTHER         -> s

\* str.lower() on the strings the model feeds in
lower(s) ==
    CASE s = "Done" -> "done"
      [] s = "DONE" -> "done"
      [] OTHER      -> s

\* int(text): the parsed integer, or None for the ValueError int() raises
int(s) ==
    CASE s = "0"   -> Some(0)
      [] s = "1"   -> Some(1)
      [] s = "7"   -> Some(7)
      [] s = "10"  -> Some(10)
      [] s = "11"  -> Some(11)
      [] s = " 7 " -> Some(7)
      [] OTHER     -> None

----------------------------------------------------------------------------
(* class Movie *)

Movie(title, rating, genre) == [title |-> title, rating |-> rating, genre |-> genre]

----------------------------------------------------------------------------
(* class User *)

User(username) == [username |-> username, movies |-> <<>>, preferences |-> <<>>]

\* the keys of self.movies
Keys(movies) == {movies[i].title : i \in DOMAIN movies}

\* position of key `title` in the dict (the key is present)
Pos(movies, title) == CHOOSE i \in DOMAIN movies : movies[i].title = title

\* self.movies[title]
At(movies, title) == movies[Pos(movies, title)]

\* mutant of add_movie: the entry is written without looking for the title first
add_movie_overwrite(self, title) ==
    IF title \notin Keys(self.movies)
    THEN [self EXCEPT !.movies = Append(@, Movie(title, None, None))]
    ELSE [self EXCEPT !.movies[Pos(self.movies, title)] = Movie(title, None, None)]

add_movie(self, title) ==
    IF title \notin Keys(self.movies)
    THEN [self EXCEPT !.movies = Append(@, Movie(title, None, None))]
    ELSE self

\* mutant of rate_movie: an unknown title is created and rated
rate_movie_autocreate(self, title, rating) ==
    LET created == IF title \in Keys(self.movies) THEN self
                   ELSE [self EXCEPT !.movies = Append(@, Movie(title, None, None))]
    IN  [created EXCEPT !.movies[Pos(created.movies, title)].rating = Some(rating)]

rate_movie(self, title, rating) ==
    IF title \in Keys(self.movies)
    THEN [self EXCEPT !.movies[Pos(self.movies, title)].rating = Some(rating)]
    ELSE self

set_genre(self, title, genre) ==
    IF title \in Keys(self.movies)
    THEN [self EXCEPT !.movies[Pos(self.movies, title)].genre = Some(genre)]
    ELSE self

\* [g.strip() for g in genres if g.strip()]
RECURSIVE StripNonEmpty(_)
StripNonEmpty(genres) ==
    IF genres = <<>> THEN <<>>
    ELSE IF strip(Head(genres)) # ""
         THEN <<strip(Head(genres))>> \o StripNonEmpty(Tail(genres))
         ELSE StripNonEmpty(Tail(genres))

set_preferences(self, genres) == [self EXCEPT !.preferences = StripNonEmpty(genres)]

get_rated_movies(self) == SelectSeq(self.movies, LAMBDA m : ~IsNone(m.rating))

----------------------------------------------------------------------------
(* JSON documents, as json.dump writes and json.load reads them: a tree of  *)
(* null / number / string / array / object nodes.  to_dict and from_dict    *)
(* are modelled together with the encoding json applies to their values.    *)

JNull == [type |-> "null"]
JNumber(n) == [type |-> "number", val |-> n]
JString(s) == [type |-> "string", val |-> s]
JArray(items) == [type |-> "array", items |-> items]
JObject(members) == [type |-> "object", members |-> members]
JAbsent == [type |-> "absent"]

\* json.dump of an optional int / an optional str: None becomes null
DumpInt(o) == IF IsNone(o) THEN JNull ELSE JNumber(Val(o))
DumpStr(o) == IF IsNone(o) THEN JNull ELSE JString(Val(o))

\* json.load of a scalar, then what dict.get hands back: null (and a missing
\* member) is None
LoadScalar(j) == IF j.type \in {"null", "absent"} THEN None ELSE Some(j.val)

\* data.get(key) / data[key] on a loaded JSON object
RECURSIVE JGet(_, _)
JGet(members, key) ==
    IF members = <<>> THEN JAbsent
    ELSE IF Head(members).key = key THEN Head(members).val
    ELSE JGet(Tail(members), key)

\* d[key] = val on a dict in insertion order: a present key keeps its place
DictSet(d, key, val) ==
    IF \E i \in DOMAIN d : d[i].key = key
    THEN [i \in DOMAIN d |-> IF d[i].key = key THEN [key |-> key, val |-> val] ELSE d[i]]
    ELSE Append(d, [key |-> key, val |-> val])

Movie_to_dict(m) ==
    JObject(<< [key |-> "rating", val |-> DumpInt(m.rating)],
               [key |-> "genre",  val |-> DumpStr(m.genre)] >>)

\* mutant of Movie_from_dict: a null rating is read as 0
Movie_from_dict_zero(title, data) ==
    Movie(title,
          IF IsNone(LoadScalar(JGet(data.members, "rating"))) THEN Some(0)
          ELSE LoadScalar(JGet(data.members, "rating")),
          LoadScalar(JGet(data.members, "genre")))

Movie_from_dict(title, data) ==
    Movie(title, LoadScalar(JGet(data.members, "rating")),
                 LoadScalar(JGet(data.members, "genre")))

\* {title: m.to_dict() for title, m in self.movies.items()}
RECURSIVE MoviesToDict(_)
MoviesToDict(movies) ==
    IF movies = <<>> THEN <<>>
    ELSE DictSet(MoviesToDict(SubSeq(movies, 1, Len(movies) - 1)),
                 movies[Len(movies)].title, Movie_to_dict(movies[Len(movies)]))

User_to_dict(self) ==
    JObject(<< [key |-> "movies", val |-> JObject(MoviesToDict(self.movies))],
               [key |-> "preferences",
                val |-> JArray([i \in DOMAIN self.preferences |->
                                   JString(self.preferences[i])])] >>)

\* {title: Movie.from_dict(title, m) for title, m in data["movies"].items()}
MoviesFromDict(members) ==
    [i \in DOMAIN members |-> Movie_from_dict(members[i].key, members[i].val)]

User_from_dict(username, data) ==
    [username    |-> username,
     movies      |-> MoviesFromDict(JGet(data.members, "movies").members),
     preferences |-> LET p == JGet(data.members, "preferences")
                     IN  IF p.type = "absent" THEN <<>>
                         ELSE [i \in DOMAIN p.items |-> p.items[i].val]]

----------------------------------------------------------------------------
(* class Storage.  A population (a `users` dict) is a sequence of entries   *)
(* [key |-> username, val |-> User object] in insertion order.              *)

NoFile == [type |-> "nofile"]

Values(d) == [i \in DOMAIN d |-> d[i].val]

\* {u.username: u.to_dict() for u in users.values()}, as json.dump writes it
RECURSIVE UsersToDict(_)
UsersToDict(objs) ==
    IF objs = <<>> THEN <<>>
    ELSE DictSet(UsersToDict(SubSeq(objs, 1, Len(objs) - 1)),
                 objs[Len(objs)].username, User_to_dict(objs[Len(objs)]))

Storage_save(population) == JObject(UsersToDict(Values(population)))

\* {u: User.from_dict(u, d) for u, d in data.items()}; {} when the file is missing
Storage_load(f) ==
    IF f = NoFile THEN <<>>
    ELSE [i \in DOMAIN f.members |->
            [key |-> f.members[i].key,
             val |-> User_from_dict(f.members[i].key, f.members[i].val)]]

----------------------------------------------------------------------------
(* Recommenders *)

Return(v) == [kind |-> "return", value |-> v]
Raise(e) == [kind |-> "raise", exc |-> e]

\* list.sort(key=rating, reverse=True) on movies whose ratings are all ints:
\* a stable sort, equal ratings keep their order
RECURSIVE SortDesc(_)
SortDesc(ms) ==
    IF ms = <<>> THEN <<>>
    ELSE LET last == ms[Len(ms)]
             rest == SortDesc(SubSeq(ms, 1, Len(ms) - 1))
             \* last goes after every element rated at least as high
             k    == Cardinality({i \in DOMAIN rest :
                                    Val(rest[i].rating) >= Val(last.rating)})
         IN  SubSeq(rest, 1, k) \o <<last>> \o SubSeq(rest, k + 1, Len(rest))

\* sorted(..., key=lambda m: m.rating, reverse=True): comparing None with an
\* int or with None raises TypeError, and a list of two or more elements
\* compares every element at least once
sorted(ms) ==
    IF Len(ms) >= 2 /\ \E i \in DOMAIN ms : IsNone(ms[i].rating)
    THEN Raise("TypeError")
    ELSE IF Len(ms) <= 1 THEN Return(ms) ELSE Return(SortDesc(ms))

GenreRecommender_recommend(user, population) ==
    LET prefs   == user.preferences
        matches == SelectSeq(user.movies,
                      LAMBDA m : Truthy(m.rating) /\ ~IsNone(m.genre)
                                 /\ Val(m.genre) \in Range(prefs))
    IN  Return(SortDesc(matches))

\* the generator inside sum(...): 1 for each title both have rated within 2
Similar(user, other, t) ==
    /\ t \in Keys(other.movies)
    /\ ~IsNone(At(user.movies, t).rating)
    /\ ~IsNone(At(other.movies, t).rating)
    /\ Abs(Val(At(user.movies, t).rating) - Val(At(other.movies, t).rating)) <= 2

RECURSIVE Score(_, _, _)
Score(user, other, i) ==
    IF i > Len(user.movies) THEN 0
    ELSE (IF Similar(user, other, user.movies[i].title) THEN 1 ELSE 0)
         + Score(user, other, i + 1)

\* mutant of Better: `>=`, so that a later user with an equal score wins
BetterOrEqual(score, best_score) == score >= best_score

\* `if score > best_score`
Better(score, best_score) == score > best_score

\* the loop over users.values(): [best_match, best_score] after the first i
\* values; best_match is a position in the population, 0 for None
RECURSIVE BestLoop(_, _, _)
BestLoop(user, objs, i) ==
    IF i = 0 THEN [best_match |-> 0, best_score |-> -1]
    ELSE LET b     == BestLoop(user, objs, i - 1)
             other == objs[i]
         IN  IF other.username = user.username THEN b
             ELSE IF Better(Score(user, other, 1), b.best_score)
                  THEN [best_match |-> i, best_score |-> Score(user, other, 1)]
                  ELSE b

best_match(user, population) ==
    BestLoop(user, Values(population), Len(population)).best_match

\* mutant of Candidate: the requesting user's own rating is not looked at
Candidate_unfiltered(user, t, m) ==
    \/ t \notin Keys(user.movies)
    \/ Truthy(m.rating)

\* the filter of the returned list
Candidate(user, t, m) ==
    \/ t \notin Keys(user.movies)
    \/ (IsNone(At(user.movies, t).rating) /\ Truthy(m.rating))

MaxRecs == 5

UserSimilarityRecommender_recommend(user, population) ==
    LET b == best_match(user, population)
    IN  IF b = 0 THEN Return(<<>>)
        ELSE LET s == sorted(SelectSeq(population[b].val.movies,
                                LAMBDA m : Candidate(user, m.title, m)))
             IN  IF s.kind = "raise" THEN s
                 ELSE Return(SubSeq(s.value, 1,
                        IF Len(s.value) < MaxRecs THEN Len(s.value) ELSE MaxRecs))

----------------------------------------------------------------------------
(* Values given to variables a specification does not use *)

NoRef == 0
NotCalled == [kind |-> "notcalled"]
NoCall == [op |-> "init", title |-> "", arg |-> None]

SessionIdle ==
    /\ heap = <<>> /\ users = <<>> /\ current_user = NoRef
    /\ file = NoFile /\ running = FALSE
UserIdle ==
    /\ obj = User("") /\ before = User("") /\ call = NoCall /\ raised = "none"
PureIdle ==
    /\ arg_user = User("") /\ arg_users = <<>> /\ ret = NotCalled

----------------------------------------------------------------------------
(* SpecUser: one User object, its methods called in any order with any      *)
(* arguments, as a client of the class may call them.                       *)

Titles == {"Dune", "Her"}
\* ratings a caller may pass: inside and outside 1..10
RatingArgs == {0, 7, 9, 11}
GenreArgs == {"", "scifi", "drama"}
\* what input().split(",") may hand to set_preferences
PreferenceArgs ==
    { <<"">>, <<" scifi">>, <<"scifi", "", "drama ">>, <<"drama", "scifi">> }

InitUser ==
    /\ obj = User("alice") /\ before = User("alice")
    /\ call = NoCall /\ raised = "none"
    /\ SessionIdle /\ PureIdle

CallAddMovie(t) ==
    /\ obj' = add_movie(obj, t)
    /\ before' = obj
    /\ call' = [op |-> "add_movie", title |-> t, arg |-> None]
    /\ raised' = "none"
    /\ UNCHANGED <<sessionVars, pureVars>>

CallRateMovie(t, r) ==
    /\ obj' = rate_movie(obj, t, r)
    /\ before' = obj
    /\ call' = [op |-> "rate_movie", title |-> t, arg |-> Some(r)]
    /\ raised' = "none"
    /\ UNCHANGED <<sessionVars, pureVars>>

CallSetGenre(t, g) ==
    /\ obj' = set_genre(obj, t, g)
    /\ before' = obj
    /\ call' = [op |-> "set_genre", title |-> t, arg |-> Some(g)]
    /\ raised' = "none"
    /\ UNCHANGED <<sessionVars, pureVars>>

CallSetPreferences(genres) ==
    /\ obj' = set_preferences(obj, genres)
    /\ before' = obj
    /\ call' = [op |-> "set_preferences", title |-> "", arg |-> genres]
    /\ raised' = "none"
    /\ UNCHANGED <<sessionVars, pureVars>>

NextUser ==
    \/ \E t \in Titles : CallAddMovie(t)
    \/ \E t \in Titles, r \in RatingArgs : CallRateMovie(t, r)
    \/ \E t \in Titles, g \in GenreArgs : CallSetGenre(t, g)
    \/ \E genres \in PreferenceArgs : CallSetPreferences(genres)

SpecUser == InitUser /\ [][NextUser]_vars

----------------------------------------------------------------------------
(* Spec: the MovieApp session.  User objects live in `heap`; MovieApp.users *)
(* and MovieApp.current_user hold references into it.  An object no         *)
(* reference reaches any more is dropped from the heap.                     *)
(* show_stats and recommend only print, and are not session steps here.     *)

Usernames == {"alice", "bob"}
\* as many objects as can be referenced at once: one per username in
\* MovieApp.users, and one more that only current_user still holds
ObjIds == 1 .. (Cardinality(Usernames) + 1)
Free == [type |-> "free"]

\* lines typed at "Movie title (or 'done'): ", up to and past the closing done
TitleInputs ==
    { <<"done">>, <<"Dune", "done">>, <<" Dune ", "Done">>, <<"DONE", "Dune">> }
\* lines typed at "Rate '..' (1-10): "
RatingInputs == {"7", " 7 ", "0", "11", "seven"}
\* lines typed at "Genre for '..': "
GenreInputs == {" scifi"}
\* lines typed at "Favorite genres (comma-separated): ", split at the commas
PreferenceInputs == { <<"">>, <<" scifi">> }

UserKeys(d) == {d[i].key : i \in DOMAIN d}
Lookup(d, key) == (CHOOSE i \in DOMAIN d : d[i].key = key)

\* the population MovieApp.users denotes: each reference replaced by its object
Population(h, d) == [i \in DOMAIN d |-> [key |-> d[i].key, val |-> h[d[i].val]]]

Live(d, cur) == {d[i].val : i \in DOMAIN d} \cup ({cur} \ {NoRef})

\* reference counting: an object nothing refers to is gone
Collect(h, d, cur) == [id \in ObjIds |-> IF id \in Live(d, cur) THEN h[id] ELSE Free]

\* the id a new object gets
NewId(d, cur) == CHOOSE id \in ObjIds \ Live(d, cur) :
                    \A other \in ObjIds \ Live(d, cur) : id <= other

\* the k-th smallest element of a set of ids
RECURSIVE Nth(_, _)
Nth(S, k) ==
    LET m == CHOOSE x \in S : \A y \in S : x <= y
    IN  IF k = 1 THEN m ELSE Nth(S \ {m}, k - 1)

Init ==
    /\ heap = [id \in ObjIds |-> Free]
    /\ file = NoFile
    /\ users = <<>>                 \* Storage.load() with no file yet
    /\ current_user = NoRef
    /\ running = TRUE
    /\ UserIdle /\ PureIdle

\* mutant of Registered: the new user replaces the dict
RegisteredAlone(d, name, id) == <<[key |-> name, val |-> id]>>

\* self.users[name] = user, for a name that is not a key yet
Registered(d, name, id) == Append(d, [key |-> name, val |-> id])

\* name is what input_nonempty returned: stripped and not empty
register(name) ==
    /\ running
    /\ IF name \in UserKeys(users)
       THEN UNCHANGED <<heap, users, current_user>>
       ELSE LET id == NewId(users, NoRef)
                d  == Registered(users, name, id)
            IN  /\ users' = d
                /\ current_user' = id
                /\ heap' = Collect([heap EXCEPT ![id] = User(name)], d, id)
    /\ UNCHANGED <<file, running, userVars, pureVars>>

login(name) ==
    /\ running
    /\ IF name \in UserKeys(users)
       THEN LET id == users[Lookup(users, name)].val
            IN  /\ current_user' = id
                /\ heap' = Collect(heap, users, id)
       ELSE UNCHANGED <<heap, current_user>>
    /\ UNCHANGED <<users, file, running, userVars, pureVars>>

\* self.current_user, the object
Self == heap[current_user]

\* guard(func): with a user logged in, func runs and leaves the current
\* user's object as `updated`; with none, nothing changes
guard(updated) ==
    /\ running
    /\ IF current_user # NoRef
       THEN heap' = [heap EXCEPT ![current_user] = updated]
       ELSE UNCHANGED heap
    /\ UNCHANGED <<users, current_user, file, running, userVars, pureVars>>

\* the loop of MovieApp.add_movie over the typed lines
RECURSIVE AddLoop(_, _)
AddLoop(self, lines) ==
    IF lines = <<>> \/ lower(strip(Head(lines))) = "done" THEN self
    ELSE AddLoop(add_movie(self, strip(Head(lines))), Tail(lines))

MinRating == 1
MaxRating == 10

\* the loop of MovieApp.rate_movies: lines[i] is typed for the i-th movie
RECURSIVE RateLoop(_, _, _)
RateLoop(self, lines, i) ==
    IF i > Len(self.movies) THEN self
    ELSE LET r == int(lines[i])
         IN  IF ~IsNone(r) /\ MinRating <= Val(r) /\ Val(r) <= MaxRating
             THEN RateLoop(rate_movie(self, self.movies[i].title, Val(r)), lines, i + 1)
             ELSE RateLoop(self, lines, i + 1)

\* the loop of MovieApp.set_genres
RECURSIVE GenreLoop(_, _, _)
GenreLoop(self, lines, i) ==
    IF i > Len(self.movies) THEN self
    ELSE GenreLoop(set_genre(self, self.movies[i].title, strip(lines[i])), lines, i + 1)

MovieApp_add_movie(lines) ==
    guard(AddLoop(Self, lines))

MovieApp_rate_movies ==
    \E lines \in [1 .. (IF current_user = NoRef THEN 0
                        ELSE Len(Self.movies)) -> RatingInputs] :
        guard(RateLoop(Self, lines, 1))

MovieApp_set_genres ==
    \E lines \in [1 .. (IF current_user = NoRef THEN 0
                        ELSE Len(Self.movies)) -> GenreInputs] :
        guard(GenreLoop(Self, lines, 1))

MovieApp_set_preferences(genres) ==
    guard(set_preferences(Self, genres))

\* choice 10
Save ==
    /\ running
    /\ file' = Storage_save(Population(heap, users))
    /\ UNCHANGED <<heap, users, current_user, running, userVars, pureVars>>

\* choice 11: self.users = Storage.load(); current_user is not touched
Load ==
    /\ running
    /\ LET loaded == Storage_load(file)
           ids    == ObjIds \ {current_user}
           d      == [i \in DOMAIN loaded |->
                         [key |-> loaded[i].key, val |-> Nth(ids, i)]]
           h      == [id \in ObjIds |->
                         IF \E i \in DOMAIN d : d[i].val = id
                         THEN loaded[CHOOSE i \in DOMAIN d : d[i].val = id].val
                         ELSE heap[id]]
       IN  /\ users' = d
           /\ heap' = Collect(h, d, current_user)
    /\ UNCHANGED <<current_user, file, running, userVars, pureVars>>

\* choice 12
Exit ==
    /\ running
    /\ running' = FALSE
    /\ UNCHANGED <<heap, users, current_user, file, userVars, pureVars>>

Next ==
    \/ \E name \in Usernames : register(name)
    \/ \E name \in Usernames : login(name)
    \/ \E lines \in TitleInputs : MovieApp_add_movie(lines)
    \/ MovieApp_rate_movies
    \/ MovieApp_set_genres
    \/ \E genres \in PreferenceInputs : MovieApp_set_preferences(genres)
    \/ Save
    \/ Load
    \/ Exit

Spec == Init /\ [][Next]_vars

----------------------------------------------------------------------------
(* Inputs for the pure calls *)

\* every movie dict over one of the title sequences, with ratings and genres
\* drawn from the given optional values
MovieMaps(titleSeqs, ratings, genres) ==
    UNION { { [i \in DOMAIN ts |-> Movie(ts[i], r[i], g[i])] :
                r \in [DOMAIN ts -> ratings], g \in [DOMAIN ts -> genres] } :
            ts \in titleSeqs }

UserWith(name, movies, prefs) ==
    [username |-> name, movies |-> movies, preferences |-> prefs]

Entry(u) == [key |-> u.username, val |-> u]

TitleOrders ==
    { <<>>, <<"Dune">>, <<"Her">>, <<"Dune", "Her">>, <<"Her", "Dune">> }

----------------------------------------------------------------------------
(* SpecSim: UserSimilarityRecommender.recommend on drawn arguments *)

\* the requesting user, over two titles
Requesters ==
    { UserWith("alice", m, <<>>) :
        m \in MovieMaps({<<>>, <<"Dune">>, <<"Her">>, <<"Dune", "Her">>},
                        {None, Some(7)}, {None}) }

\* another user, over the same two titles in either order
Others(name) ==
    { UserWith(name, m, <<>>) :
        m \in MovieMaps(TitleOrders, {None, Some(0), Some(8), Some(10)}, {None}) }

\* the requesting user's own entry: first (1), in the middle (2), or not in
\* the dict at all (3: a User object the population does not hold)
Placed(a, b, c, where) ==
    CASE where = 1 -> <<Entry(a), Entry(b), Entry(c)>>
      [] where = 2 -> <<Entry(b), Entry(a), Entry(c)>>
      [] OTHER     -> <<Entry(b), Entry(c)>>

\* a neighbour with up to MaxNeighbourMovies movies: more than are returned
MaxNeighbourMovies == 7
MovieTitles == <<"Dune", "Her", "Up", "Heat", "Jaws", "Alien", "Big", "Tron", "Ran">>

TruncationRequesters ==
    { UserWith("alice", m, <<>>) :
        m \in MovieMaps({<<>>, <<"Dune">>}, {None, Some(9)}, {None}) }

TruncationNeighbours ==
    { UserWith("bob", m, <<>>) :
        m \in MovieMaps({ SubSeq(MovieTitles, 1, n) :
                            n \in (MaxRecs - 1) .. MaxNeighbourMovies },
                        {None, Some(8), Some(9)}, {None}) }

\* alice (Dune=9, Matrix=8) and bob (Dune=8, Matrix=9, Her=10)
ScenarioAlice ==
    UserWith("alice", << Movie("Dune", Some(9), None),
                         Movie("Matrix", Some(8), None) >>, <<>>)
ScenarioBob ==
    UserWith("bob", << Movie("Dune", Some(8), None),
                       Movie("Matrix", Some(9), None),
                       Movie("Her", Some(10), None) >>, <<>>)

InitSim ==
    /\ \/ \E a \in Requesters, b \in Others("bob"), c \in Others("carol"),
             where \in 1 .. 3 :
            arg_user = a /\ arg_users = Placed(a, b, c, where)
       \/ \E a \in TruncationRequesters, b \in TruncationNeighbours :
            arg_user = a /\ arg_users = <<Entry(a), Entry(b)>>
       \/ /\ arg_user = ScenarioAlice
          /\ arg_users \in { <<Entry(ScenarioAlice), Entry(ScenarioBob)>>,
                             <<Entry(ScenarioAlice)>>, <<>> }
    /\ ret = NotCalled
    /\ SessionIdle /\ UserIdle

\* MovieApp.recommend(UserSimilarityRecommender()) up to the call
CallSimilarity ==
    /\ ret = NotCalled
    /\ ret' = UserSimilarityRecommender_recommend(arg_user, arg_users)
    /\ UNCHANGED <<arg_user, arg_users, sessionVars, userVars>>

NextSim == CallSimilarity

SpecSim == InitSim /\ [][NextSim]_vars

----------------------------------------------------------------------------
(* SpecStore: Storage.save then Storage.load on a drawn population *)

StoreUsers(name) ==
    { UserWith(name, m, p) :
        m \in MovieMaps(TitleOrders, {None, Some(7)}, {None, Some(""), Some("scifi")}),
        p \in { <<>>, <<"scifi", "drama">>, <<"drama", "scifi", "drama">> } }

StoreSecondUsers ==
    { UserWith("alice", m, <<"scifi">>) :
        m \in MovieMaps({<<>>, <<"Her">>, <<"Her", "Dune">>},
                        {None, Some(1)}, {None, Some("drama")}) }

InitStore ==
    /\ \/ arg_users = <<>>
       \/ \E a \in StoreUsers("alice") : arg_users = <<Entry(a)>>
       \/ \E b \in StoreUsers("bob"), a \in StoreSecondUsers :
            arg_users = <<Entry(b), Entry(a)>>
    /\ arg_user = User("")
    /\ ret = NotCalled
    /\ SessionIdle /\ UserIdle

\* Storage.save(population)
StoreSave ==
    /\ file = NoFile /\ ret = NotCalled
    /\ file' = Storage_save(arg_users)
    /\ UNCHANGED <<heap, users, current_user, running, userVars, pureVars>>

\* Storage.load()
StoreLoad ==
    /\ ret = NotCalled
    /\ ret' = Return(Storage_load(file))
    /\ UNCHANGED <<arg_user, arg_users, sessionVars, userVars>>

NextStore == StoreSave \/ StoreLoad

SpecStore == InitStore /\ [][NextStore]_vars

----------------------------------------------------------------------------
(* Claims about the User methods (specification SpecUser) *)

Known(title) == title \in Keys(before.movies)

\* C1: rating an existing movie succeeds iff 1 <= r <= 10; any other r
\* signals a validation error and leaves the previous rating as it was
C1_SetRatingValidates ==
    (call.op = "rate_movie" /\ Known(call.title)) =>
        IF MinRating <= Val(call.arg) /\ Val(call.arg) <= MaxRating
        THEN raised = "none" /\ At(obj.movies, call.title).rating = call.arg
        ELSE raised = "ValidationError" /\ obj = before

\* C4: GenreRecommender.recommend returns exactly the user's own movies with
\* a non-null rating and a genre among the preferences, by rating descending,
\* equal ratings in the insertion order of the movie map
C4_GenreExact ==
    LET r  == GenreRecommender_recommend(obj, <<Entry(obj)>>)
        rs == r.value
        at(i) == Pos(obj.movies, rs[i].title)
    IN  /\ r.kind = "return"
        /\ Range(rs) = { m \in Range(obj.movies) :
                           /\ ~IsNone(m.rating)
                           /\ ~IsNone(m.genre)
                           /\ Val(m.genre) \in Range(obj.preferences) }
        /\ \A i, j \in DOMAIN rs :
             i < j => \/ Val(rs[i].rating) > Val(rs[j].rating)
                      \/ /\ Val(rs[i].rating) = Val(rs[j].rating)
                         /\ at(i) < at(j)

\* C4 on the users none of whose ratings is 0: there the result is as claimed
GenreExactForNonZeroRatings ==
    (\A m \in Range(obj.movies) : m.rating # Some(0)) => C4_GenreExact

\* C7: add_movie is idempotent: adding a title the user already has changes
\* nothing (rating and genre kept, no second entry), and adding twice is
\* adding once
C7_AddMovieIdempotent ==
    call.op = "add_movie" =>
        /\ Known(call.title) => obj = before
        /\ add_movie(obj, call.title) = obj
        /\ Cardinality({i \in DOMAIN obj.movies : obj.movies[i].title = call.title}) = 1

C7_Witness ==
    /\ call.op = "add_movie"
    /\ Known(call.title)
    /\ ~IsNone(At(before.movies, call.title).rating)
    /\ ~IsNone(At(before.movies, call.title).genre)
    /\ Len(before.movies) = 2

\* C8: rate_movie and set_genre on a title the user does not have change
\* neither the movies nor the preferences, create no entry and raise nothing
C8_UnknownTitleNoOp ==
    (call.op \in {"rate_movie", "set_genre"} /\ ~Known(call.title)) =>
        /\ obj = before
        /\ call.title \notin Keys(obj.movies)
        /\ raised = "none"

C8_Witness ==
    /\ call.op \in {"rate_movie", "set_genre"}
    /\ ~Known(call.title)
    /\ before.movies # <<>>
    /\ before.preferences # <<>>

----------------------------------------------------------------------------
(* Claims about the session (specification Spec) *)

\* the usernames of a population, and the (username, title) pairs of its users
Present(h, d) ==
    { <<d[i].key>> : i \in DOMAIN d }
        \cup UNION { { <<d[i].key, t>> : t \in Keys(h[d[i].val].movies) } :
                      i \in DOMAIN d }

Kept == Present(heap, users) \subseteq Present(heap', users')

\* C9: nothing is ever deleted: a username once in the population stays, and
\* a title once in a user's movie map stays, whatever the session does
C9_NothingDeleted == [][Kept]_vars

\* C9, amended: every session step other than Load keeps all usernames and
\* all titles of the population
C9_NothingDeletedButByLoad == [][Load \/ Kept]_vars

C9_Witness ==
    /\ Len(users) = 2
    /\ \A i \in DOMAIN users : heap[users[i].val].movies # <<>>
    /\ file # NoFile
    /\ current_user # NoRef

\* C10: whenever a user is logged in, current_user is the very object the
\* population holds under that username
C10_CurrentUserIsStored ==
    current_user # NoRef =>
        \E i \in DOMAIN users :
            /\ users[i].key = heap[current_user].username
            /\ users[i].val = current_user

----------------------------------------------------------------------------
(* Claims about UserSimilarityRecommender (specification SpecSim) *)

\* C2: every movie UserSimilarityRecommender.recommend returns has a rating
C2_ReturnedAreRated ==
    ret.kind = "return" => \A i \in DOMAIN ret.value : ~IsNone(ret.value[i].rating)

OtherUsers == {i \in DOMAIN arg_users : arg_users[i].val.username # arg_user.username}

\* the number of titles both have rated, at most 2 apart
SimilarityScore(i) ==
    LET other == arg_users[i].val
    IN  Cardinality({ t \in Keys(arg_user.movies) \cap Keys(other.movies) :
                        /\ ~IsNone(At(arg_user.movies, t).rating)
                        /\ ~IsNone(At(other.movies, t).rating)
                        /\ Abs(Val(At(arg_user.movies, t).rating)
                               - Val(At(other.movies, t).rating)) <= 2 })

\* C5: the neighbour is the other user with the highest similarity score, the
\* first of them in population order on a tie; there is one whenever there is
\* another user, also when every score is 0
C5_NeighbourIsFirstBest ==
    ret # NotCalled =>
        LET b == best_match(arg_user, arg_users)
        IN  IF OtherUsers = {} THEN b = 0
            ELSE /\ b \in OtherUsers
                 /\ \A j \in OtherUsers :
                      /\ SimilarityScore(j) <= SimilarityScore(b)
                      /\ j < b => SimilarityScore(j) < SimilarityScore(b)

C5_Witness ==
    /\ ret # NotCalled
    /\ \E i, j \in OtherUsers :
         /\ i < j
         /\ SimilarityScore(i) = SimilarityScore(j)
         /\ SimilarityScore(i) >= 1
         /\ best_match(arg_user, arg_users) = i

\* C6: recommend never returns a title the requesting user has rated; what it
\* returns are movies of the neighbour, by rating descending, the first 5 of
\* them; alice{Dune=9, Matrix=8}, bob{Dune=8, Matrix=9, Her=10} gives [Her(10)]
C6_Recommendations ==
    ret.kind = "return" =>
        LET rs == ret.value
            b  == best_match(arg_user, arg_users)
        IN  /\ Len(rs) <= MaxRecs
            /\ \A i \in DOMAIN rs :
                 ~ (/\ rs[i].title \in Keys(arg_user.movies)
                    /\ ~IsNone(At(arg_user.movies, rs[i].title).rating))
            /\ rs # <<>> => b # 0
            /\ \A i \in DOMAIN rs : rs[i] \in Range(arg_users[b].val.movies)
            /\ \A i, j \in DOMAIN rs : i # j => rs[i].title # rs[j].title
            /\ Len(rs) >= 2 =>
                 /\ \A i \in DOMAIN rs : ~IsNone(rs[i].rating)
                 /\ \A i, j \in DOMAIN rs :
                      i < j => Val(rs[i].rating) >= Val(rs[j].rating)
            /\ b # 0 =>
                 LET left == { m \in Range(arg_users[b].val.movies) :
                                 /\ Candidate(arg_user, m.title, m)
                                 /\ m \notin Range(rs) }
                 IN  left # {} =>
                       /\ Len(rs) = MaxRecs
                       /\ \A m \in left, i \in DOMAIN rs :
                            Val(m.rating) <= Val(rs[i].rating)
            /\ (arg_user = ScenarioAlice
                  /\ arg_users = <<Entry(ScenarioAlice), Entry(ScenarioBob)>>)
                 => rs = << Movie("Her", Some(10), None) >>

C6_Witness ==
    /\ ret.kind = "return"
    /\ Len(ret.value) = MaxRecs
    /\ Len(arg_users) = 2
    /\ Len(arg_users[2].val.movies) > MaxRecs + 1
    /\ \E t \in Keys(arg_users[2].val.movies) :
         /\ t \in Keys(arg_user.movies)
         /\ ~IsNone(At(arg_user.movies, t).rating)

----------------------------------------------------------------------------
(* Claim about Storage (specification SpecStore) *)

\* C3: load after save gives the same usernames, and for each user the same
\* rating and genre under every title (None staying None) and the same
\* preference list in the same order
C3_RoundTrip ==
    (file # NoFile /\ ret # NotCalled) =>
        LET loaded == ret.value
        IN  /\ UserKeys(loaded) = UserKeys(arg_users)
            /\ Len(loaded) = Len(arg_users)
            /\ \A i \in DOMAIN arg_users :
                 LET u == arg_users[i].val
                     v == loaded[Lookup(loaded, arg_users[i].key)].val
                 IN  /\ v.username = u.username
                     /\ Keys(v.movies) = Keys(u.movies)
                     /\ Len(v.movies) = Len(u.movies)
                     /\ \A t \in Keys(u.movies) : At(v.movies, t) = At(u.movies, t)
                     /\ v.preferences = u.preferences

C3_Witness ==
    /\ file # NoFile /\ ret # NotCalled
    /\ Len(arg_users) = 2
    /\ \E m \in Range(arg_users[1].val.movies) : IsNone(m.rating) /\ m.genre = Some("")
    /\ \E m \in Range(arg_users[1].val.movies) : ~IsNone(m.rating) /\ IsNone(m.genre)
    /\ Len(arg_users[1].val.preferences) = 3
    /\ Len(arg_users[2].val.movies) = 2

=============================================================================
